---- MODULE Spec2Model ----
(***************************************************************************)
(* Model of the two utilities of the repository:                           *)
(*   src/ind3/script.js  the transaction ledger page (list, id counter,    *)
(*                       table body, total line, form, alert)              *)
(*   src/ind2/index.js   the TransactionAnalyzer query class               *)
(*                                                                         *)
(* JavaScript strings that the code takes apart are sequences of           *)
(* one-character strings; a JavaScript number is a record                  *)
(* [nan |-> BOOLEAN, v |-> Int] where it can be NaN and an integer where   *)
(* it cannot.  The inputs contain no '.', exponent or "Infinity", so the   *)
(* numbers of the model are integers and -0 is 0.                          *)
(***************************************************************************)
EXTENDS Integers, Sequences, FiniteSets, TLC

VARIABLES
    transactions,       \* script.js: let transactions = []
    transactionId,      \* script.js: let transactionId = 0
    tableRows,          \* rows of #transactionTable tbody[0], top to bottom
    totalText,          \* innerText of #totalAmount as written by the script
    form,               \* values of the inputs date, amount, category, description
    lastAlert,          \* message alerted by the latest handler call, "" if none
    this_transactions,  \* index.js: TransactionAnalyzer.transactions
    result              \* the latest analyzer call and what it returned

vars == <<transactions, transactionId, tableRows, totalText, form, lastAlert,
          this_transactions, result>>

ledgerVars == <<transactions, transactionId, tableRows, totalText, form, lastAlert>>

analyzerVars == <<this_transactions, result>>

\* Largest number of accepted adds in a run of the ledger.
MaxId == 3

\* Largest number of records of an analyzer collection.
MaxLen == 3

-----------------------------------------------------------------------------
(* Numbers and strings *)

DigitChars == <<"0", "1", "2", "3", "4", "5", "6", "7", "8", "9">>

IsDigit(c) == \E i \in 1..10 : DigitChars[i] = c

DigitValue(c) == (CHOOSE i \in 1..10 : DigitChars[i] = c) - 1

NaN == [nan |-> TRUE, v |-> 0]

Num(n) == [nan |-> FALSE, v |-> n]

RECURSIVE NatToString(_)
NatToString(n) ==
    IF n < 10 THEN <<DigitChars[n + 1]>>
    ELSE NatToString(n \div 10) \o <<DigitChars[(n % 10) + 1]>>

\* Number::toString of an integer, as a template literal or String(n) gives it.
NumberToString(n) == IF n < 0 THEN <<"-">> \o NatToString(-n) ELSE NatToString(n)

RECURSIVE DigitsValue(_, _)
DigitsValue(s, acc) ==
    IF s = <<>> THEN acc ELSE DigitsValue(Tail(s), 10 * acc + DigitValue(Head(s)))

RECURSIVE TrimStart(_)
TrimStart(s) == IF s # <<>> /\ Head(s) = " " THEN TrimStart(Tail(s)) ELSE s

RECURSIVE DigitPrefix(_)
DigitPrefix(s) ==
    IF s # <<>> /\ IsDigit(Head(s)) THEN <<Head(s)>> \o DigitPrefix(Tail(s)) ELSE <<>>

\* parseFloat: leading white space skipped, an optional sign, then the longest
\* prefix of digits; NaN when there is no digit; what follows is ignored.
parseFloat(s) ==
    LET t      == TrimStart(s)
        signed == t # <<>> /\ Head(t) \in {"+", "-"}
        body   == IF signed THEN Tail(t) ELSE t
        digits == DigitPrefix(body)
        value  == DigitsValue(digits, 0)
    IN  IF digits = <<>> THEN NaN
        ELSE IF signed /\ Head(t) = "-" THEN Num(-value) ELSE Num(value)

\* ToNumber of a string, as the == of a string with a number applies it: the
\* whole string must be a number, and the empty string is 0.
StringToNumber(s) ==
    LET signed == s # <<>> /\ Head(s) \in {"+", "-"}
        body   == IF signed THEN Tail(s) ELSE s
    IN  IF s = <<>> THEN Num(0)
        ELSE IF body = <<>> \/ DigitPrefix(body) # body THEN NaN
        ELSE IF Head(s) = "-" THEN Num(-DigitsValue(body, 0))
        ELSE Num(DigitsValue(body, 0))

\* text == id, a string against a number.
LooseEqualsNumber(text, id) ==
    LET n == StringToNumber(text) IN ~n.nan /\ n.v = id

\* !x of a number: NaN and 0 are falsy.
FalsyNumber(x) == x.nan \/ x.v = 0

-----------------------------------------------------------------------------
(* The ledger page, src/ind3/script.js *)

\* What the user can type.  A description is the list of its pieces between
\* single spaces, which is what split(' ') returns; the empty string is <<"">>.
DateInputs == {"", "2024-01-05"}

AmountInputs ==
    { <<>>, <<"0">>, <<"-", "0">>, <<"x", "1">>, <<"-">>,
      <<"5">>, <<"-", "7">>, <<" ", "1", "2", "x">> }

CategoryInputs == {"", "food"}

EmptyDescription == <<"">>

DescriptionInputs == {EmptyDescription, <<"a", "b", "c", "d", "e">>}

EmptyForm ==
    [date |-> "", amount |-> <<>>, category |-> "", description |-> EmptyDescription]

Forms ==
    [date : DateInputs, amount : AmountInputs, category : CategoryInputs,
     description : DescriptionInputs]

NotWritten == <<>>

AlertMessage == "All fields are required."

\* ValidationFails with isNaN(amount) in the place of !amount.
ValidationFailsOnlyNaN(date, amount, category, description) ==
    \/ date = ""
    \/ amount.nan
    \/ category = ""
    \/ description = EmptyDescription

\* if (!date || !amount || !category || !description)
ValidationFails(date, amount, category, description) ==
    \/ date = ""
    \/ FalsyNumber(amount)
    \/ category = ""
    \/ description = EmptyDescription

RECURSIVE ReduceAmounts(_, _)
ReduceAmounts(list, total) ==
    IF list = <<>> THEN total
    ELSE ReduceAmounts(Tail(list), total + Head(list).amount)

\* calculateTotal: the text written to #totalAmount for a list.
calculateTotal(list) ==
    <<"Total Amount: ">> \o NumberToString(ReduceAmounts(list, 0))

Take(s, n) == SubSeq(s, 1, IF Len(s) < n THEN Len(s) ELSE n)

\* The row addTransactionToTable appends for a transaction.
NewRow(transaction) ==
    [cells     |-> << NumberToString(transaction.id),
                      transaction.date,
                      transaction.category,
                      Take(transaction.description, 4) >>,
     onclick   |-> transaction.id,
     className |-> IF transaction.amount > 0 THEN "green" ELSE "red"]

addTransactionToTable(rows, transaction) == Append(rows, NewRow(transaction))

\* FilterOutId with === in the place of !==.
FilterOnlyId(list, id) == SelectSeq(list, LAMBDA t : t.id = id)

\* transactions.filter(transaction => transaction.id !== id)
FilterOutId(list, id) == SelectSeq(list, LAMBDA t : t.id # id)

RemoveAt(s, i) == SubSeq(s, 1, i - 1) \o SubSeq(s, i + 1, Len(s))

\* DeleteFirstRow with === in the place of ==: a string is never a number.
DeleteFirstRowStrict(rows, id) == rows

\* The loop of deleteTransaction: the first row whose first cell == id is
\* deleted, and the loop stops.
DeleteFirstRow(rows, id) ==
    LET hits == {i \in 1..Len(rows) : LooseEqualsNumber(rows[i].cells[1], id)}
    IN  IF hits = {} THEN rows
        ELSE RemoveAt(rows, CHOOSE i \in hits : \A j \in hits : i <= j)

Init ==
    /\ transactions = <<>>
    /\ transactionId = 0
    /\ tableRows = <<>>
    /\ totalText = NotWritten
    /\ form = EmptyForm
    /\ lastAlert = ""
    /\ this_transactions = <<>>
    /\ result = [op |-> "none"]

\* The user fills in the form.
FillForm(f) ==
    /\ form' = f
    /\ UNCHANGED <<transactions, transactionId, tableRows, totalText, lastAlert>>
    /\ UNCHANGED analyzerVars

\* ++transactionId in the place of transactionId++.
PreIncrement(n) == [value |-> n + 1, after |-> n + 1]

\* transactionId++: the value of the expression and the counter after it.
PostIncrement(n) == [value |-> n, after |-> n + 1]

addTransaction ==
    LET date        == form.date
        amount      == parseFloat(form.amount)
        category    == form.category
        description == form.description
    IN  IF ValidationFails(date, amount, category, description)
        THEN /\ lastAlert' = AlertMessage
             /\ UNCHANGED <<transactions, transactionId, tableRows, totalText, form>>
             /\ UNCHANGED analyzerVars
        ELSE LET counter == PostIncrement(transactionId)
                 transaction ==
                     [id          |-> counter.value,
                      date        |-> date,
                      amount      |-> amount.v,
                      category    |-> category,
                      description |-> description]
             IN  /\ transactionId < MaxId
                 /\ transactionId' = counter.after
                 /\ transactions' = Append(transactions, transaction)
                 /\ tableRows' = addTransactionToTable(tableRows, transaction)
                 /\ totalText' = calculateTotal(transactions')
                 /\ form' = EmptyForm
                 /\ lastAlert' = ""
                 /\ UNCHANGED analyzerVars

\* deleteTransaction without its closing calculateTotal().
deleteTransactionStaleTotal(id) ==
    /\ transactions' = FilterOutId(transactions, id)
    /\ tableRows' = DeleteFirstRow(tableRows, id)
    /\ lastAlert' = ""
    /\ UNCHANGED <<transactionId, form, totalText>>
    /\ UNCHANGED <<this_transactions, result>>

\* Ids a delete can be called with: those of the buttons, and ones no row has.
DeleteIds == (-1)..MaxId

deleteTransaction(id) ==
    /\ transactions' = FilterOutId(transactions, id)
    /\ tableRows' = DeleteFirstRow(tableRows, id)
    /\ totalText' = calculateTotal(transactions')
    /\ lastAlert' = ""
    /\ UNCHANGED <<transactionId, form>>
    /\ UNCHANGED analyzerVars

Next ==
    \/ \E f \in Forms : FillForm(f)
    \/ addTransaction
    \/ \E id \in DeleteIds : deleteTransaction(id)

Spec == Init /\ [][Next]_vars

-----------------------------------------------------------------------------
(* The analyzer, src/ind2/index.js *)

\* s.split(sep) for a one-character separator.
RECURSIVE Split(_, _)
Split(s, sep) ==
    LET at == {i \in 1..Len(s) : s[i] = sep}
    IN  IF at = {} THEN <<s>>
        ELSE LET i == CHOOSE k \in at : \A j \in at : k <= j
             IN  <<SubSeq(s, 1, i - 1)>> \o Split(SubSeq(s, i + 1, Len(s)), sep)

Undefined == <<"u", "n", "d", "e", "f", "i", "n", "e", "d">>

AllDigits(s) == s # <<>> /\ DigitPrefix(s) = s

\* Days from 1970-01-01 to the day `d` of month `m` of year `y` (MakeDay); a
\* day past the end of its month runs into the next month.
MakeDay(y, m, d) ==
    LET yy  == IF m <= 2 THEN y - 1 ELSE y
        era == yy \div 400
        yoe == yy - era * 400
        mp  == IF m > 2 THEN m - 3 ELSE m + 9
        doy == (153 * mp + 2) \div 5 + d - 1
        doe == yoe * 365 + yoe \div 4 - yoe \div 100 + doy
    IN  era * 146097 + doe - 719468

\* new Date(s) for a date-only string: the time value of YYYY-MM-DD at
\* midnight UTC, NaN (Invalid Date) for anything else.  The time value is
\* counted in days, the unit of which a date-only string gives a whole number
\* (1 day = 86 400 000 ms), to stay within the integers of the model checker.
DateTimeValue(s) ==
    LET parts == Split(s, "-")
    IN  IF \/ Len(parts) # 3
           \/ Len(parts[1]) # 4 \/ Len(parts[2]) # 2 \/ Len(parts[3]) # 2
           \/ \E i \in 1..3 : ~AllDigits(parts[i])
        THEN NaN
        ELSE LET y == DigitsValue(parts[1], 0)
                 m == DigitsValue(parts[2], 0)
                 d == DigitsValue(parts[3], 0)
             IN  IF m \notin 1..12 \/ d \notin 1..31 THEN NaN
                 ELSE Num(MakeDay(y, m, d))

\* a >= b and a <= b of two Date objects: their time values are compared, and
\* a comparison with NaN is false.
DateGeq(a, b) == ~a.nan /\ ~b.nan /\ a.v >= b.v

\* DateLeq with < in the place of <=.
DateLt(a, b) == ~a.nan /\ ~b.nan /\ a.v < b.v

DateLeq(a, b) == ~a.nan /\ ~b.nan /\ a.v <= b.v

\* The records an analyzer is built from.
D20231231 == <<"2", "0", "2", "3", "-", "1", "2", "-", "3", "1">>

D20240101 == <<"2", "0", "2", "4", "-", "0", "1", "-", "0", "1">>

D20240229 == <<"2", "0", "2", "4", "-", "0", "2", "-", "2", "9">>

D20241005 == <<"2", "0", "2", "4", "-", "1", "0", "-", "0", "5">>

AnalyzerDates == {D20231231, D20240101, D20240229, D20241005}

\* The dates a range query is asked with.
RangeDates == {D20231231, D20240101, D20241005}

Transaction(date, amount, type) ==
    [transaction_date |-> date, transaction_amount |-> amount, transaction_type |-> type]

Transactions ==
    { Transaction(D20231231, 10, "debit"),
      Transaction(D20240101, -3, "debit"),
      Transaction(D20240101, 25, "credit"),
      Transaction(D20240229, 10, "debit"),
      Transaction(D20241005, 4, "debit"),
      Transaction(D20241005, 10, "credit"),
      Transaction(D20240229, 7, "refund") }

Collections == UNION {[1..n -> Transactions] : n \in 0..MaxLen}

\* A quotient of two integers, in lowest terms; x / 0 is NaN, den = 0.
RECURSIVE Gcd(_, _)
Gcd(a, b) == IF b = 0 THEN a ELSE Gcd(b, a % b)

Abs(x) == IF x < 0 THEN -x ELSE x

Divide(a, b) ==
    IF b = 0 THEN [num |-> 0, den |-> 0]
    ELSE LET g == Gcd(Abs(a), b) IN [num |-> a \div g, den |-> b \div g]

Whole(n) == [num |-> n, den |-> 1]

\* reduce((total, transaction) => total + parseFloat(transaction.transaction_amount), 0)
RECURSIVE ReduceParsedAmounts(_, _)
ReduceParsedAmounts(list, total) ==
    IF list = <<>> THEN total
    ELSE ReduceParsedAmounts(
             Tail(list),
             total + parseFloat(NumberToString(Head(list).transaction_amount)).v)

calculateTotalAmount(list) == ReduceParsedAmounts(list, 0)

\* calculateAverageTransactionAmount without its first line.
calculateAverageUnguarded(list) == Divide(ReduceParsedAmounts(list, 0), Len(list))

calculateAverageTransactionAmount(list) ==
    IF Len(list) = 0 THEN Whole(0)
    ELSE Divide(ReduceParsedAmounts(list, 0), Len(list))

\* getTransactionByType with find in the place of filter.
findTransactionByType(list, type) ==
    LET all == SelectSeq(list, LAMBDA t : t.transaction_type = type)
    IN  IF all = <<>> THEN <<>> ELSE <<Head(all)>>

getTransactionByType(list, type) ==
    SelectSeq(list, LAMBDA t : t.transaction_type = type)

getTransactionsInDateRange(list, startDate, endDate) ==
    SelectSeq(list, LAMBDA t :
        LET transactionDate == DateTimeValue(t.transaction_date)
        IN  /\ DateGeq(transactionDate, DateTimeValue(startDate))
            /\ DateLeq(transactionDate, DateTimeValue(endDate)))

\* transaction.transaction_date.split('-')[1], as a property key.
MonthKey(t) ==
    LET parts == Split(t.transaction_date, "-")
    IN  IF Len(parts) >= 2 THEN parts[2] ELSE Undefined

\* if (!months[month]) months[month] = 1; else months[month]++;
\* An object is the list of its own properties in the order they were created;
\* a count that is there is at least 1, so !months[month] says it is not there.
CountKey(months, key) ==
    LET at == {i \in 1..Len(months) : months[i].key = key}
    IN  IF at = {} THEN Append(months, [key |-> key, count |-> 1])
        ELSE [i \in 1..Len(months) |->
                 IF i \in at THEN [key |-> key, count |-> months[i].count + 1]
                 ELSE months[i]]

RECURSIVE CountMonths(_, _)
CountMonths(list, months) ==
    IF list = <<>> THEN months
    ELSE CountMonths(Tail(list), CountKey(months, MonthKey(Head(list))))

\* A property key that is an array index: the canonical decimal string of an
\* integer (no leading zero).
IsArrayIndex(key) == AllDigits(key) /\ NatToString(DigitsValue(key, 0)) = key

RECURSIVE AscendingIndexKeys(_)
AscendingIndexKeys(keys) ==
    IF keys = {} THEN <<>>
    ELSE LET least == CHOOSE k \in keys :
                          \A j \in keys : DigitsValue(k, 0) <= DigitsValue(j, 0)
         IN  <<least>> \o AscendingIndexKeys(keys \ {least})

\* Object.keys(months): the array-index keys in ascending numeric order, then
\* the other keys in the order they were created.
ObjectKeys(months) ==
    LET created == [i \in 1..Len(months) |-> months[i].key]
    IN  AscendingIndexKeys({created[i] : i \in {j \in 1..Len(created) : IsArrayIndex(created[j])}})
            \o SelectSeq(created, LAMBDA k : ~IsArrayIndex(k))

CountOf(months, key) ==
    months[CHOOSE i \in 1..Len(months) : months[i].key = key].count

\* PickMonth with >= in the place of >.
PickMonthGeq(months, a, b) == IF CountOf(months, a) >= CountOf(months, b) THEN a ELSE b

\* (a, b) => months[a] > months[b] ? a : b
PickMonth(months, a, b) == IF CountOf(months, a) > CountOf(months, b) THEN a ELSE b

RECURSIVE ReduceFrom(_, _, _)
ReduceFrom(months, acc, keys) ==
    IF keys = <<>> THEN acc
    ELSE ReduceFrom(months, PickMonth(months, acc, Head(keys)), Tail(keys))

Returned(value) == [threw |-> FALSE, value |-> value]

Thrown(error) == [threw |-> TRUE, value |-> error]

\* ReduceKeys with '' as the initial value of the reduce.
ReduceKeysFromEmptyString(months, keys) == Returned(ReduceFrom(months, <<>>, keys))

\* keys.reduce(f) with no initial value: a TypeError on an empty array,
\* otherwise the first key is the initial accumulator.
ReduceKeys(months, keys) ==
    IF keys = <<>> THEN Thrown("TypeError")
    ELSE Returned(ReduceFrom(months, Head(keys), Tail(keys)))

findMostTransactionsMonth(list) ==
    LET months == CountMonths(list, <<>>)
    IN  ReduceKeys(months, ObjectKeys(months))

findMostDebitTransactionMonth(list) ==
    LET debitTransactionsByMonth ==
            CountMonths(SelectSeq(list, LAMBDA t : t.transaction_type = "debit"), <<>>)
    IN  ReduceKeys(debitTransactionsByMonth, ObjectKeys(debitTransactionsByMonth))

InitAnalyzer ==
    /\ transactions = <<>>
    /\ transactionId = 0
    /\ tableRows = <<>>
    /\ totalText = NotWritten
    /\ form = EmptyForm
    /\ lastAlert = ""
    /\ this_transactions \in Collections
    /\ result = [op |-> "none"]

Call(op, args, outcome) ==
    /\ result' = [op |-> op, args |-> args, threw |-> outcome.threw, value |-> outcome.value]
    /\ UNCHANGED this_transactions
    /\ UNCHANGED ledgerVars

CallTotalAmount ==
    Call("calculateTotalAmount", <<>>, Returned(calculateTotalAmount(this_transactions)))

CallAverage ==
    Call("calculateAverageTransactionAmount", <<>>,
         Returned(calculateAverageTransactionAmount(this_transactions)))

CallByType(type) ==
    Call("getTransactionByType", <<type>>,
         Returned(getTransactionByType(this_transactions, type)))

CallInDateRange(startDate, endDate) ==
    Call("getTransactionsInDateRange", <<startDate, endDate>>,
         Returned(getTransactionsInDateRange(this_transactions, startDate, endDate)))

CallMostMonth ==
    Call("findMostTransactionsMonth", <<>>, findMostTransactionsMonth(this_transactions))

CallMostDebitMonth ==
    Call("findMostDebitTransactionMonth", <<>>,
         findMostDebitTransactionMonth(this_transactions))

NextAnalyzer ==
    \/ CallTotalAmount
    \/ CallAverage
    \/ \E type \in {"debit", "credit"} : CallByType(type)
    \/ \E startDate \in RangeDates, endDate \in RangeDates :
           CallInDateRange(startDate, endDate)
    \/ CallMostMonth
    \/ CallMostDebitMonth

SpecAnalyzer == InitAnalyzer /\ [][NextAnalyzer]_vars

-----------------------------------------------------------------------------
(* Properties of the ledger, checked under Spec *)

RECURSIVE SumTo(_, _)
SumTo(list, n) == IF n = 0 THEN 0 ELSE SumTo(list, n - 1) + list[n].amount

\* The inputs the specification says an add rejects.
AddIsRejected(f) ==
    \/ f.date = ""
    \/ f.category = ""
    \/ f.description = EmptyDescription
    \/ parseFloat(f.amount).nan
    \/ parseFloat(f.amount).v = 0

TotalShownIsSum ==
    totalText # NotWritten =>
        /\ Head(totalText) = "Total Amount: "
        /\ StringToNumber(Tail(totalText)) = Num(SumTo(transactions, Len(transactions)))

\* C1: once an accepted add or a delete has written the total, the number shown
\* is the sum of the amounts of the records now in the list; a rejected add
\* changes neither the list nor the total shown.
C1_TotalIsSumOfList ==
    /\ []TotalShownIsSum
    /\ [][addTransaction /\ AddIsRejected(form) =>
              transactions' = transactions /\ totalText' = totalText]_vars

C1_Witness ==
    /\ Len(transactions) = 2
    /\ transactionId = 3
    /\ lastAlert = AlertMessage
    /\ totalText = <<"Total Amount: ", "-", "2">>

\* C2: an add with an empty date, category or description, or an amount that
\* is NaN or 0, alerts and leaves the list, the counter and the table as they
\* were; any other add appends one record whose id is the old counter and
\* raises the counter by one.
C2_AddRejectsOrAppends ==
    [][addTransaction =>
          IF AddIsRejected(form)
          THEN /\ lastAlert' = AlertMessage
               /\ transactions' = transactions
               /\ transactionId' = transactionId
               /\ tableRows' = tableRows
          ELSE /\ Len(transactions') = Len(transactions) + 1
               /\ SubSeq(transactions', 1, Len(transactions)) = transactions
               /\ transactions'[Len(transactions')].id = transactionId
               /\ transactionId' = transactionId + 1]_vars

C2_Witness ==
    /\ transactions # <<>>
    /\ lastAlert = AlertMessage
    /\ form = [date |-> "2024-01-05", amount |-> <<"0">>, category |-> "food",
               description |-> <<"a", "b", "c", "d", "e">>]

\* C3: a delete of an id in the list removes that one record and keeps the
\* others in order; a delete of an id not in the list changes neither the list
\* nor the table; the counter is unchanged by both.
C3_DeleteRemovesOne ==
    [][\A id \in DeleteIds :
          deleteTransaction(id) =>
              /\ transactionId' = transactionId
              /\ IF \E i \in 1..Len(transactions) : transactions[i].id = id
                 THEN \E i \in 1..Len(transactions) :
                          /\ transactions[i].id = id
                          /\ transactions' = RemoveAt(transactions, i)
                 ELSE /\ transactions' = transactions
                      /\ tableRows' = tableRows]_vars

C3_Witness ==
    /\ Len(transactions) = 2
    /\ transactions[1].id = 0
    /\ transactions[2].id = 2
    /\ lastAlert = ""
    /\ form # EmptyForm

\* C4: no two records of the list have the same id, and every id of the list
\* is below the counter.
C4_IdsUniqueBelowCounter ==
    /\ \A i, j \in 1..Len(transactions) :
           transactions[i].id = transactions[j].id => i = j
    /\ \A i \in 1..Len(transactions) : transactions[i].id < transactionId

C4_Witness ==
    /\ transactionId = 2
    /\ Len(transactions) = 1
    /\ transactions[1].id = 1

\* C5: the first cells of the table rows, top to bottom, show the ids of the
\* records of the list in the order of the list.
C5_TableMirrorsList ==
    /\ Len(tableRows) = Len(transactions)
    /\ \A i \in 1..Len(tableRows) :
           tableRows[i].cells[1] = NumberToString(transactions[i].id)

C5_Witness ==
    /\ Len(tableRows) = 2
    /\ tableRows[1].cells[1] = <<"0">>
    /\ tableRows[2].cells[1] = <<"2">>

-----------------------------------------------------------------------------
(* Properties of the analyzer, checked under SpecAnalyzer *)

Months(list) == {MonthKey(list[i]) : i \in 1..Len(list)}

CountIn(list, m) == Cardinality({i \in 1..Len(list) : MonthKey(list[i]) = m})

FirstAt(list, m) ==
    CHOOSE i \in 1..Len(list) :
        /\ MonthKey(list[i]) = m
        /\ \A j \in 1..Len(list) : MonthKey(list[j]) = m => i <= j

MaxMonths(list) ==
    {m \in Months(list) : \A k \in Months(list) : CountIn(list, k) <= CountIn(list, m)}

FirstSeenAmongMax(list) ==
    CHOOSE m \in MaxMonths(list) :
        \A k \in MaxMonths(list) : FirstAt(list, m) <= FirstAt(list, k)

\* The months whose key is the decimal string of an integer.
IndexMonths == {<<"1", "0">>, <<"1", "1">>, <<"1", "2">>}

\* Whether month a comes before month b in the order Object.keys lists them:
\* 10, 11, 12 in ascending order first, then the others as first seen.
KeyBefore(list, a, b) ==
    IF a \in IndexMonths
    THEN b \notin IndexMonths \/ DigitsValue(a, 0) < DigitsValue(b, 0)
    ELSE b \notin IndexMonths /\ FirstAt(list, a) < FirstAt(list, b)

LastKeyAmongMax(list) ==
    CHOOSE m \in MaxMonths(list) :
        \A k \in MaxMonths(list) \ {m} : KeyBefore(list, k, m)

Debits(list) == SelectSeq(list, LAMBDA t : t.transaction_type = "debit")

\* The records a month query counts.
Counted ==
    IF result.op = "findMostDebitTransactionMonth"
    THEN Debits(this_transactions) ELSE this_transactions

MonthQueryAnswered ==
    /\ result.op \in {"findMostTransactionsMonth", "findMostDebitTransactionMonth"}
    /\ Counted # <<>>

\* C6 as stated: the month returned has the largest count, and of the months
\* with the largest count it is the one first seen.
C6_FirstSeenAmongMax ==
    MonthQueryAnswered =>
        /\ ~result.threw
        /\ result.value \in MaxMonths(Counted)
        /\ result.value = FirstSeenAmongMax(Counted)

\* C6 as amended: the month returned has the largest count, and of the months
\* with the largest count it is the last in the order of Object.keys: the
\* months 10, 11, 12 ascending, then the months 01..09 as first seen.
C6_LastKeyAmongMax ==
    MonthQueryAnswered =>
        /\ ~result.threw
        /\ result.value \in MaxMonths(Counted)
        /\ result.value = LastKeyAmongMax(Counted)

C6_Witness ==
    /\ result.op = "findMostDebitTransactionMonth"
    /\ Len(this_transactions) = 3
    /\ Cardinality(MaxMonths(Counted)) = 2
    /\ MaxMonths(Counted) \cap IndexMonths = {}
    /\ result.value # FirstSeenAmongMax(Counted)

\* The calendar date a YYYY-MM-DD string names, as <<year, month, day>>.
CalendarDate(s) ==
    <<DigitsValue(SubSeq(s, 1, 4), 0), DigitsValue(SubSeq(s, 6, 7), 0),
      DigitsValue(SubSeq(s, 9, 10), 0)>>

NotAfter(a, b) ==
    LET x == CalendarDate(a)
        y == CalendarDate(b)
    IN  \/ x[1] < y[1]
        \/ x[1] = y[1] /\ x[2] < y[2]
        \/ x[1] = y[1] /\ x[2] = y[2] /\ x[3] <= y[3]

\* C7: a range query returns, in their order, the records dated from start
\* to end with both ends included; with start = end = d, the records dated d.
C7_RangeIsInclusive ==
    result.op = "getTransactionsInDateRange" =>
        LET startDate == result.args[1]
            endDate   == result.args[2]
        IN  /\ result.value =
                   SelectSeq(this_transactions, LAMBDA t :
                       /\ NotAfter(startDate, t.transaction_date)
                       /\ NotAfter(t.transaction_date, endDate))
            /\ startDate = endDate =>
                   result.value =
                       SelectSeq(this_transactions,
                                 LAMBDA t : t.transaction_date = startDate)

C7_Witness ==
    /\ result.op = "getTransactionsInDateRange"
    /\ result.args[1] = result.args[2]
    /\ Len(this_transactions) = 3
    /\ Len(result.value) = 2

Range(s) == {s[i] : i \in 1..Len(s)}

OnlyDebitAndCredit(list) ==
    \A i \in 1..Len(list) : list[i].transaction_type \in {"debit", "credit"}

\* C8: of a collection of debit and credit records only, the debit records
\* and the credit records returned by two calls that follow each other have
\* no record in common, every record of the collection is in exactly one of
\* them, and their lengths add up to the length of the collection.
C8_TypesPartition ==
    [][( /\ result.op = "getTransactionByType"
         /\ result'.op = "getTransactionByType"
         /\ {result.args[1], result'.args[1]} = {"debit", "credit"}
         /\ OnlyDebitAndCredit(this_transactions) ) =>
           /\ Range(result.value) \cap Range(result'.value) = {}
           /\ \A i \in 1..Len(this_transactions) :
                  (this_transactions[i] \in Range(result.value))
                      # (this_transactions[i] \in Range(result'.value))
           /\ Len(result.value) + Len(result'.value) = Len(this_transactions)]_vars

C8_Witness ==
    /\ result.op = "getTransactionByType"
    /\ result.args[1] = "credit"
    /\ OnlyDebitAndCredit(this_transactions)
    /\ Len(this_transactions) = 3
    /\ Len(result.value) = 1

\* C9: the average of no record is 0, the average of one record is its amount,
\* and the average of a non-empty collection is the total amount divided by
\* the number of records.
C9_Average ==
    result.op = "calculateAverageTransactionAmount" =>
        /\ this_transactions = <<>> => result.value = Whole(0)
        /\ Len(this_transactions) = 1 =>
               result.value = Whole(this_transactions[1].transaction_amount)
        /\ this_transactions # <<>> =>
               result.value =
                   Divide(calculateTotalAmount(this_transactions), Len(this_transactions))

C9_Witness ==
    /\ result.op = "calculateAverageTransactionAmount"
    /\ Len(this_transactions) = 3
    /\ result.value.den = 3

\* C10: a month query over no record, and a debit month query over no debit
\* record, end in a TypeError and not in a month, and leave the collection as
\* it was.
C10_EmptyReduceThrows ==
    [][( \/ /\ result'.op = "findMostTransactionsMonth"
            /\ this_transactions = <<>>
         \/ /\ result'.op = "findMostDebitTransactionMonth"
            /\ Debits(this_transactions) = <<>> ) =>
           /\ result'.threw
           /\ result'.value = "TypeError"
           /\ this_transactions' = this_transactions]_vars

C10_Witness ==
    /\ result.op = "findMostDebitTransactionMonth"
    /\ result.threw
    /\ Len(this_transactions) = 2

====
